---- MODULE Spec2Model ----
(***************************************************************************)
(* Model of the earthquake-data pipeline of src/src/api.py: the numeric    *)
(* and date parsers, the four source adapters, the normalizer, the fetch   *)
(* orchestrator fetch_sismos and the filter filter_sismos, driven as       *)
(* src/app.py drives them (one fetch, then one filter).                    *)
(*                                                                         *)
(* Encoding.  A text is a tuple of one-character strings.  A nullable     *)
(* value is a tuple of length 0 (None / NaN / NaT) or 1 (the value).  A   *)
(* float is an integer number of hundredths.  An instant is an integer    *)
(* number of hours counted from 00:00 UTC of day 1, the day before the    *)
(* America/Santiago zone moves its clocks forward; a date text is the     *)
(* pair of its day and hour fields.                                        *)
(***************************************************************************)
EXTENDS Integers, Sequences, FiniteSets, TLC

VARIABLES
    pc,       \* where fetch_sismos stands: the adapter it calls next, "done", "filtered"
    called,   \* the adapters fetch_sismos has called, in order
    ret,      \* what each adapter call ended with
    result,   \* what fetch_sismos ended with: a table, or the exception it let out
    args,     \* the arguments of the filter_sismos call
    out       \* the table filter_sismos returned

vars == <<pc, called, ret, result, args, out>>

(***************************************************************************)
(* Bounds of the model.                                                    *)
(***************************************************************************)
MaxRows == 2

-----------------------------------------------------------------------------
(* Nullable values *)
None == <<>>

Some(x) == <<x>>

IsNone(v) == Len(v) = 0

Val(v) == v[1]

-----------------------------------------------------------------------------
(* Texts *)
UpperChars == <<"A","B","C","D","E","F","G","H","I","J","K","L","M",
                "N","O","P","Q","R","S","T","U","V","W","X","Y","Z">>

LowerChars == <<"a","b","c","d","e","f","g","h","i","j","k","l","m",
                "n","o","p","q","r","s","t","u","v","w","x","y","z">>

Digits == <<"0","1","2","3","4","5","6","7","8","9">>

IsDigit(c) == \E i \in 1..Len(Digits) : Digits[i] = c

DigitVal(c) == (CHOOSE i \in 1..Len(Digits) : Digits[i] = c) - 1

LowerChar(c) ==
    IF \E i \in 1..Len(UpperChars) : UpperChars[i] = c
    THEN LowerChars[CHOOSE i \in 1..Len(UpperChars) : UpperChars[i] = c]
    ELSE c

\* str.lower()
Lower(s) == [i \in 1..Len(s) |-> LowerChar(s[i])]

IsSpace(c) == c = " "

\* str.strip()
Strip(s) ==
    LET keep == {i \in 1..Len(s) : ~IsSpace(s[i])}
    IN  IF keep = {} THEN <<>>
        ELSE LET lo == CHOOSE i \in keep : \A j \in keep : i <= j
                 hi == CHOOSE i \in keep : \A j \in keep : j <= i
             IN  SubSeq(s, lo, hi)

\* str(x) of a cell: the text itself, and "None" for None
StrOf(v) == IF IsNone(v) THEN <<"N","o","n","e">> ELSE Val(v)

\* re.search(pat, text) is not None, for a pattern made of literal characters
\* and of ".", which matches any one character
RegexSearch(pat, text) ==
    \E k \in 0..(Len(text) - Len(pat)) :
        \A i \in 1..Len(pat) : pat[i] = "." \/ pat[i] = text[k + i]

\* literal substring test
Contains(text, frag) ==
    \E k \in 0..(Len(text) - Len(frag)) :
        \A i \in 1..Len(frag) : frag[i] = text[k + i]

-----------------------------------------------------------------------------
(* _to_float: first match of [-+]?\d+(?:[\.,]\d+)? in str(x), as a float *)
IsSign(c) == c = "-" \/ c = "+"

\* end of the maximal run of digits of s that starts at position i
RECURSIVE DigitsEnd(_, _)
DigitsEnd(s, i) ==
    IF i + 1 <= Len(s) /\ IsDigit(s[i + 1]) THEN DigitsEnd(s, i + 1) ELSE i

RECURSIVE DigitsValue(_, _, _)
DigitsValue(s, i, j) ==
    IF i > j THEN 0 ELSE DigitsValue(s, i, j - 1) * 10 + DigitVal(s[j])

\* whether the pattern matches at position i of s
MatchesAt(s, i) ==
    \/ IsDigit(s[i])
    \/ IsSign(s[i]) /\ i + 1 <= Len(s) /\ IsDigit(s[i + 1])

\* the float, in hundredths, of the match that starts at position i
FloatAt(s, i) ==
    LET d0   == IF IsSign(s[i]) THEN i + 1 ELSE i
        d1   == DigitsEnd(s, d0)
        frac == d1 + 2 <= Len(s) /\ (s[d1 + 1] = "." \/ s[d1 + 1] = ",")
                                 /\ IsDigit(s[d1 + 2])
        f1   == IF frac THEN DigitsEnd(s, d1 + 2) ELSE d1 + 1
        ip   == DigitsValue(s, d0, d1)
        fp   == IF ~frac THEN 0
                ELSE IF f1 = d1 + 2 THEN DigitVal(s[d1 + 2]) * 10
                ELSE DigitVal(s[d1 + 2]) * 10 + DigitVal(s[d1 + 3])
        mag  == ip * 100 + fp
    IN  IF s[i] = "-" THEN 0 - mag ELSE mag

_to_float(x) ==
    IF IsNone(x) THEN None
    ELSE LET s    == Val(x)
             hits == {i \in 1..Len(s) : MatchesAt(s, i)}
         IN  IF hits = {} THEN None
             ELSE Some(FloatAt(s, CHOOSE i \in hits : \A j \in hits : i <= j))

-----------------------------------------------------------------------------
(* Instants, the America/Santiago zone, date texts *)

\* the instant (04:00 UTC of day 2) at which the zone goes from UTC-4 to UTC-3
DstStart == 28

\* UTC offset of the zone, in hours, in force at instant t
Offset(t) == IF t < DstStart THEN 0 - 4 ELSE 0 - 3

\* a date text "YYYY-MM-DD HH:00:00" with day field d and hour field h
DateText(d, h) == [d |-> d, h |-> h]

\* what no date parser accepts
Garbage == [d |-> 0, h |-> 0]

\* pd.to_datetime(text, errors="coerce"): the hour count, NaT when a field is
\* out of range
ParseDate(txt) ==
    IF txt.d \in 1..31 /\ txt.h \in 0..23
    THEN Some(24 * (txt.d - 1) + txt.h)
    ELSE None

\* Series.dt.tz_convert("America/Santiago"): same instant, wall clock of the zone
tz_convert(t) ==
    IF IsNone(t) THEN None
    ELSE Some([instant |-> Val(t), wall |-> Val(t) + Offset(Val(t))])

\* the instants whose wall clock in the zone reads w
InstantsOfWall(w) == {t \in (w + 3)..(w + 4) : t + Offset(t) = w}

\* Series.dt.tz_localize("America/Santiago") raises on a wall-clock time that
\* does not exist or is ambiguous in the zone
LocalizeRaises(w) ==
    ~IsNone(w) /\ Cardinality(InstantsOfWall(Val(w))) # 1

tz_localize(w) ==
    IF IsNone(w) THEN None
    ELSE Some([instant |-> CHOOSE t \in InstantsOfWall(Val(w)) : TRUE,
               wall |-> Val(w)])

\* .dt.date: the calendar day of the wall clock
DateOf(l) == IF IsNone(l) THEN None ELSE Some((Val(l).wall \div 24) + 1)

\* .dt.strftime("%H:%M"): hour and minute of the wall clock
HourLabel(l) == IF IsNone(l) THEN None
                ELSE Some([hh |-> Val(l).wall % 24, mm |-> 0])

-----------------------------------------------------------------------------
(* Tables.  A table has its set of named columns, the columns of the source *)
(* frame it was built from (kept by the normalizer) and its rows in order.  *)

Table(cols, srccols, rows) ==
    [kind |-> "table", cols |-> cols, srccols |-> srccols, rows |-> rows]

Raise == [kind |-> "raise"]

NotCalled == [kind |-> "none"]

IsTable(o) == o.kind = "table"

\* DataFrame.empty
IsEmpty(o) == Len(o.rows) = 0

Range(f) == {f[i] : i \in DOMAIN f}

\* the orders of rows that sort_values("fecha_dt", ascending=False) may give:
\* newest first, NaT last, rows of equal fecha_dt in either order
SortedDesc(rows) ==
    \A i \in 1..(Len(rows) - 1) :
        \/ IsNone(rows[i + 1].fecha_dt)
        \/ /\ ~IsNone(rows[i].fecha_dt)
           /\ Val(rows[i].fecha_dt) >= Val(rows[i + 1].fecha_dt)

Perms(n) == {p \in [1..n -> 1..n] : \A i, j \in 1..n : p[i] = p[j] => i = j}

sort_values(rows) ==
    {s \in {[i \in 1..Len(rows) |-> rows[p[i]]] : p \in Perms(Len(rows))} :
        SortedDesc(s)}

-----------------------------------------------------------------------------
(* _normalize_df *)

colmap ==
    [
      fecha |-> <<<<"f","e","c","h","a">>,
          <<"f","e","c","h","a","u","t","c">>,
          <<"t","i","m","e">>,
          <<"t","i","e","m","p","o">>,
          <<"t","i","m","e","s","t","a","m","p">>,
          <<"d","a","t","e","t","i","m","e">>,
          <<"d","a","t","e">>>>,
      magnitud |-> <<<<"m","a","g","n","i","t","u","d">>,
          <<"m","a","g">>,
          <<"m","a","g","n","i","t","u","d","e">>,
          <<"m","l">>,
          <<"m","w">>>>,
      profundidad |-> <<<<"p","r","o","f","u","n","d","i","d","a","d">>,
          <<"p","r","o","f">>,
          <<"d","e","p","t","h">>,
          <<"z">>>>,
      latitud |-> <<<<"l","a","t","i","t","u","d">>,
          <<"l","a","t">>,
          <<"l","a","t","i","t","u","d","e">>,
          <<"y">>>>,
      longitud |-> <<<<"l","o","n","g","i","t","u","d">>,
          <<"l","o","n">>,
          <<"l","o","n","g">>,
          <<"l","n","g">>,
          <<"l","o","n","g","i","t","u","d","e">>,
          <<"x">>>>,
      referencia |-> <<<<"r","e","f","e","r","e","n","c","i","a">>,
          <<"r","e","f","e","r","e","n","c","i","a","g","e","o","g","r","a","f","i","c","a">>,
          <<"r","e","f">>,
          <<"r","e","f","g","e","o","g","r","a","f","i","c","a">>,
          <<"l","u","g","a","r">>,
          <<"p","l","a","c","e">>,
          <<"t","i","t","l","e">>,
          <<"l","o","c","a","t","i","o","n">>>>
    ]

\* the keys of colmap, in the order the loop visits them
ColKeys == <<"fecha", "magnitud", "profundidad", "latitud", "longitud",
             "referencia">>

\* first_match as a substring test: the first column whose name contains a
\* candidate, by candidate rank
first_match_substring(cols, columns) ==
    LET hits == {i \in 1..Len(cols) :
                    \E j \in 1..Len(columns) : Contains(columns[j], cols[i])}
    IN  IF hits = {} THEN None
        ELSE LET c == cols[CHOOSE i \in hits : \A j \in hits : i <= j]
             IN  Some(columns[CHOOSE j \in 1..Len(columns) :
                        /\ Contains(columns[j], c)
                        /\ \A l \in 1..(j - 1) : ~Contains(columns[l], c)])

\* first_match(cols, columns): the first candidate that is an element of the
\* list of lower-cased column names, None when there is none
first_match(cols, columns) ==
    LET hits == {i \in 1..Len(cols) : cols[i] \in Range(columns)}
    IN  IF hits = {} THEN None
        ELSE Some(cols[CHOOSE i \in hits : \A j \in hits : i <= j])

\* columns_lower.index(idx): the first position holding idx
IndexOf(columns, idx) ==
    CHOOSE i \in 1..Len(columns) :
        columns[i] = idx /\ \A j \in 1..(i - 1) : columns[j] # idx

\* the source column that supplies canonical field k, None when none does
SourceColumn(columns, k) ==
    LET columns_lower == [i \in 1..Len(columns) |-> Lower(columns[i])]
        idx == first_match(colmap[k], columns_lower)
    IN  IF IsNone(idx) THEN None
        ELSE Some(columns[IndexOf(columns_lower, Val(idx))])

\* df[k] for one row r of a frame with the given columns
Mapped(columns, r, k) ==
    LET src == SourceColumn(columns, k)
    IN  IF IsNone(src) THEN None ELSE r[Val(src)]

\* parse_fecha(s): pd.to_datetime(None) is None, a failed parse is NaT
parse_fecha(s) == IF IsNone(s) THEN None ELSE ParseDate(Val(s))

\* one row of the frame after the column mapping, the numeric and date parses
\* and the derived columns
NormalizeRow(columns, r) ==
    LET dt == parse_fecha(Mapped(columns, r, "fecha"))
        lo == tz_convert(dt)
    IN  [raw         |-> r,
         fecha       |-> Mapped(columns, r, "fecha"),
         magnitud    |-> _to_float(Mapped(columns, r, "magnitud")),
         profundidad |-> _to_float(Mapped(columns, r, "profundidad")),
         latitud     |-> _to_float(Mapped(columns, r, "latitud")),
         longitud    |-> _to_float(Mapped(columns, r, "longitud")),
         referencia  |-> StrOf(Mapped(columns, r, "referencia")),
         fecha_dt    |-> dt,
         fecha_local |-> lo,
         dia         |-> DateOf(lo),
         hora        |-> HourLabel(lo)]

NormalizedCols == {"fecha", "magnitud", "profundidad", "latitud", "longitud",
                   "referencia", "fecha_dt", "fecha_local", "dia", "hora"}

\* df.dropna(subset=["fecha_dt"])
dropna(rows) == SelectSeq(rows, LAMBDA r : ~IsNone(r.fecha_dt))

\* The outcomes of _normalize_df(df).  When no row keeps a parsed date the
\* fecha_dt column that is left holds no timezone-aware value, and whether
\* .dt.tz_convert then raises or yields an empty frame is the library's
\* choice: both outcomes are possible.
_normalize_df(df) ==
    LET all  == [i \in 1..Len(df.rows) |-> NormalizeRow(df.columns, df.rows[i])]
        kept == dropna(all)
    IN  IF Len(kept) = 0
        THEN {Raise, Table(NormalizedCols, df.columns, <<>>)}
        ELSE {Table(NormalizedCols, df.columns, s) : s \in sort_values(kept)}

-----------------------------------------------------------------------------
(* fetch_from_chilealerta, fetch_from_gael *)

\* the keys under which the ChileAlerta response may hold its list
ListKeys == <<<<"d","a","t","a">>,
              <<"e","v","e","n","t","s">>,
              <<"s","i","s","m","o","s">>,
              <<"u","l","t","i","m","o","s">>,
              <<"r","e","s","u","l","t","a","d","o","s">>,
              <<"r","e","s","u","l","t">>,
              <<"f","e","a","t","u","r","e","s">>,
              <<"e","a","r","t","h","q","u","a","k","e","s">>>>

\* pd.json_normalize(raw) of a list of flat event objects with the same keys
Frame(columns, rows) == [columns |-> columns, rows |-> rows]

\* The list the ChileAlerta adapter takes from a dict response: the value of
\* the first key of ListKeys that holds a non-empty list, else the dict
\* itself as one event.
PickList(data) ==
    LET hits == {i \in 1..Len(ListKeys) :
                    /\ ListKeys[i] \in Range(data.keys)
                    /\ data.val[ListKeys[i]].islist
                    /\ Len(data.val[ListKeys[i]].rows) > 0}
    IN  IF hits = {}
        THEN Frame(data.keys, <<[k \in Range(data.keys) |-> data.val[k].cell]>>)
        ELSE LET v == data.val[ListKeys[CHOOSE i \in hits : \A j \in hits : i <= j]]
             IN  Frame(v.columns, v.rows)

fetch_from_chilealerta(resp) ==
    IF ~resp.ok THEN {Raise}
    ELSE IF resp.data.shape = "list"
         THEN _normalize_df(Frame(resp.data.columns, resp.data.rows))
    ELSE IF resp.data.shape = "dict"
         THEN _normalize_df(PickList(resp.data))
    ELSE {Raise}

\* {k.lower(): v for k, v in d.items()}: keys in order of first appearance,
\* the value of the last key that lower-cases to each
LowerKeyOrder(columns) ==
    LET low == [i \in 1..Len(columns) |-> Lower(columns[i])]
        first == {i \in 1..Len(low) : \A j \in 1..(i - 1) : low[j] # low[i]}
        F[i \in 0..Len(low)] ==
            IF i = 0 THEN <<>>
            ELSE IF i \in first THEN Append(F[i - 1], low[i]) ELSE F[i - 1]
    IN  F[Len(low)]

LowerKeyRow(columns, r) ==
    [k \in Range(LowerKeyOrder(columns)) |->
        r[columns[CHOOSE i \in 1..Len(columns) :
                    /\ Lower(columns[i]) = k
                    /\ \A j \in (i + 1)..Len(columns) : Lower(columns[j]) # k]]]

fetch_from_gael(resp) ==
    IF ~resp.ok THEN {Raise}
    ELSE IF resp.data.shape # "list" THEN {Raise}
    ELSE _normalize_df(
            Frame(LowerKeyOrder(resp.data.columns),
                  [i \in 1..Len(resp.data.rows) |->
                      LowerKeyRow(resp.data.columns, resp.data.rows[i])]))

-----------------------------------------------------------------------------
(* fetch_from_evtdb, fetch_from_csn *)

\* the columns both scraping adapters select for the frame they return
SelectedCols == {"fecha_dt", "fecha_local", "magnitud", "profundidad",
                 "latitud", "longitud", "referencia"}

\* df[[...]]: the row restricted to the selected columns
Select(r, cols) == [c \in cols |-> r[c]]

\* pages=2 in fetch_sismos
EvtdbPages == 2

\* the rows one page contributes: one per anchor whose text is a date-time
\* and whose parent text continues with the four numbers
PageRows(page) ==
    LET hit == SelectSeq(page.anchors, LAMBDA a : a.isdate /\ a.tail)
    IN  [i \in 1..Len(hit) |->
            [fecha       |-> hit[i].txt,
             latitud     |-> Some(hit[i].lat),
             longitud    |-> Some(hit[i].lon),
             profundidad |-> Some(hit[i].prof),
             magnitud    |-> Some(hit[i].mag),
             referencia  |-> <<>>]]

\* the page loop from page i on, at most n pages: a failed request raises,
\* a page without the "[Siguiente]" link ends the loop
RECURSIVE Scrape(_, _, _)
Scrape(site, i, n) ==
    IF ~site[i].ok THEN [ok |-> FALSE, rows |-> <<>>]
    ELSE IF i >= n \/ ~site[i].next
         THEN [ok |-> TRUE, rows |-> PageRows(site[i])]
    ELSE LET rest == Scrape(site, i + 1, n)
         IN  [ok |-> rest.ok, rows |-> PageRows(site[i]) \o rest.rows]

EvtdbRow(r) ==
    LET dt == ParseDate(r.fecha)
        lo == tz_convert(dt)
    IN  [fecha |-> r.fecha, latitud |-> r.latitud, longitud |-> r.longitud,
         profundidad |-> r.profundidad, magnitud |-> r.magnitud,
         referencia |-> r.referencia,
         fecha_dt |-> dt, fecha_local |-> lo,
         dia |-> DateOf(lo), hora |-> HourLabel(lo)]

fetch_from_evtdb(site, pages) ==
    LET n   == IF pages < 1 THEN 1 ELSE pages
        got == Scrape(site, 1, n)
    IN  IF ~got.ok THEN {Raise}
        ELSE IF Len(got.rows) = 0 THEN {Table(SelectedCols, <<>>, <<>>)}
        ELSE LET df == [i \in 1..Len(got.rows) |->
                           Select(EvtdbRow(got.rows[i]), SelectedCols)]
             IN  {Table(SelectedCols, <<>>, s) : s \in sort_values(df)}

\* the wall clock a naive pd.to_datetime(text) reads
NaiveOf(txt) == ParseDate(txt)

CsnRow(b) ==
    LET dt == ParseDate(b.utc)
        lo == tz_localize(NaiveOf(b.local))
    IN  [fecha_local_str |-> b.local, fecha_utc_str |-> b.utc,
         referencia |-> b.lugar,
         latitud |-> Some(b.lat), longitud |-> Some(b.lon),
         profundidad |-> Some(b.prof), magnitud |-> Some(b.mag),
         fecha_dt |-> dt, fecha_local |-> lo,
         dia |-> DateOf(lo), hora |-> HourLabel(lo)]

fetch_from_csn(resp) ==
    IF ~resp.ok THEN {Raise}
    ELSE IF Len(resp.blocks) = 0 THEN {Table(SelectedCols, <<>>, <<>>)}
    ELSE IF \E i \in 1..Len(resp.blocks) :
                LocalizeRaises(NaiveOf(resp.blocks[i].local))
         THEN {Raise}
    ELSE LET df == [i \in 1..Len(resp.blocks) |->
                       Select(CsnRow(resp.blocks[i]), SelectedCols)]
         IN  {Table(SelectedCols, <<>>, s) : s \in sort_values(df)}

-----------------------------------------------------------------------------
(* fetch_sismos *)

\* the adapters in the order fetch_sismos calls them
Order == <<"evtdb", "csn", "chilealerta", "gael">>

\* a call without the try/except around it: its exception leaves fetch_sismos
Guarded_unprotected(o, nxt) ==
    IF ~IsTable(o) THEN [pc |-> "done", result |-> o]
    ELSE IF ~IsEmpty(o) THEN [pc |-> "done", result |-> o]
    ELSE [pc |-> nxt, result |-> NotCalled]

\* a guarded call with the emptiness test inverted
Guarded_inverted(o, nxt) ==
    IF IsTable(o) /\ IsEmpty(o)
    THEN [pc |-> "done", result |-> o]
    ELSE [pc |-> nxt, result |-> NotCalled]

\* a call inside try/except: a non-empty frame is returned, an empty frame or
\* an exception moves on to the call after it
Guarded(o, nxt) ==
    IF IsTable(o) /\ ~IsEmpty(o)
    THEN [pc |-> "done", result |-> o]
    ELSE [pc |-> nxt, result |-> NotCalled]

\* the last call wrapped like the others: its exception becomes an empty frame
Unguarded_wrapped(o) ==
    IF IsTable(o) THEN [pc |-> "done", result |-> o]
    ELSE [pc |-> "done", result |-> [kind |-> "table", cols |-> {},
                                     srccols |-> <<>>, rows |-> <<>>]]

\* the last call: its frame is returned, its exception leaves fetch_sismos
Unguarded(o) == [pc |-> "done", result |-> o]

-----------------------------------------------------------------------------
(* filter_sismos *)

\* the value NaN magnitudes are replaced by
MagSentinel == -999

\* fillna with a sentinel above every threshold
fillna_high(m) == IF IsNone(m) THEN 999 * 100 ELSE Val(m)

\* out["magnitud"].fillna(-999)
fillna(m) == IF IsNone(m) THEN MagSentinel * 100 ELSE Val(m)

\* Series >= Timestamp, False on NaT
GeTime(t, bound) == ~IsNone(t) /\ Val(t) >= bound

LeTime(t, bound) == ~IsNone(t) /\ Val(t) <= bound

\* .str.lower().str.contains(rk): a regular-expression search
MatchesKeyword(r, region_keyword) ==
    RegexSearch(Lower(Strip(region_keyword)), Lower(r.referencia))

filter_sismos(df, mag_min, fecha_desde, fecha_hasta, region_keyword) ==
    LET o0 == df.rows
        o1 == IF IsNone(mag_min) THEN o0
              ELSE SelectSeq(o0, LAMBDA r : fillna(r.magnitud) >= Val(mag_min))
        o2 == IF IsNone(fecha_desde) THEN o1
              ELSE SelectSeq(o1, LAMBDA r : GeTime(r.fecha_dt, Val(fecha_desde)))
        o3 == IF IsNone(fecha_hasta) THEN o2
              ELSE SelectSeq(o2, LAMBDA r : LeTime(r.fecha_dt, Val(fecha_hasta)))
        o4 == IF Len(region_keyword) = 0 THEN o3
              ELSE SelectSeq(o3, LAMBDA r : MatchesKeyword(r, region_keyword))
    IN  Table(df.cols, df.srccols, o4)

-----------------------------------------------------------------------------
(* What the sources may reply: small sets of responses of every shape the  *)
(* adapters distinguish.                                                    *)

SeqsUpTo(S, n) == UNION {[1..k -> S] : k \in 0..n}

T(txt) == Some(txt)

\* anchors of an EVTDB page: two events, an event whose date text has the
\* right shape and an hour out of range, a date without the numeric tail,
\* and a link that is no date
EvtdbAnchors ==
    {[isdate |-> TRUE, txt |-> DateText(2, 3), tail |-> TRUE,
      lat |-> -3345, lon |-> -7066, prof |-> 3500, mag |-> 450],
     [isdate |-> TRUE, txt |-> DateText(2, 4), tail |-> TRUE,
      lat |-> -2000, lon |-> -7000, prof |-> 1000, mag |-> 250],
     [isdate |-> TRUE, txt |-> DateText(2, 24), tail |-> TRUE,
      lat |-> -2000, lon |-> -7000, prof |-> 1000, mag |-> 500],
     [isdate |-> TRUE, txt |-> DateText(2, 3), tail |-> FALSE,
      lat |-> 0, lon |-> 0, prof |-> 0, mag |-> 0],
     [isdate |-> FALSE, txt |-> Garbage, tail |-> FALSE,
      lat |-> 0, lon |-> 0, prof |-> 0, mag |-> 0]}

FailedPage == [ok |-> FALSE, anchors |-> <<>>, next |-> FALSE]

\* a site of one page, or of a page with a "[Siguiente]" link and the page
\* it leads to, of at most MaxRows anchors in all
EvtdbSites ==
    {<<FailedPage>>}
    \cup {<<[ok |-> TRUE, anchors |-> a, next |-> FALSE]>> :
            a \in SeqsUpTo(EvtdbAnchors, MaxRows)}
    \cup UNION {{<<[ok |-> TRUE, anchors |-> a, next |-> TRUE], p2>> :
                    p2 \in {FailedPage}
                           \cup {[ok |-> TRUE, anchors |-> b, next |-> n] :
                                   b \in SeqsUpTo(EvtdbAnchors, MaxRows - Len(a)),
                                   n \in BOOLEAN}} :
                 a \in SeqsUpTo(EvtdbAnchors, MaxRows)}

\* event blocks of a catalog page: two whose local and UTC texts agree, one
\* whose local text names another hour than its UTC text, one whose local
\* text names an hour the zone skips, one whose UTC text has an hour out of
\* range
CsnBlocks ==
    {[local |-> DateText(1, 23), utc |-> DateText(2, 3), lugar |-> <<"S","a">>,
      lat |-> -3345, lon |-> -7066, prof |-> 3500, mag |-> 450],
     [local |-> DateText(2, 1), utc |-> DateText(2, 4), lugar |-> <<"S","b">>,
      lat |-> -2000, lon |-> -7000, prof |-> 1000, mag |-> 250],
     [local |-> DateText(2, 1), utc |-> DateText(2, 3), lugar |-> <<"S","a">>,
      lat |-> -2000, lon |-> -7000, prof |-> 1000, mag |-> 300],
     [local |-> DateText(2, 0), utc |-> DateText(2, 4), lugar |-> <<"S","b">>,
      lat |-> -2000, lon |-> -7000, prof |-> 1000, mag |-> 300],
     [local |-> DateText(2, 1), utc |-> DateText(2, 24), lugar |-> <<"S","b">>,
      lat |-> -2000, lon |-> -7000, prof |-> 1000, mag |-> 300]}

CsnResponses ==
    {[ok |-> FALSE, blocks |-> <<>>]}
    \cup {[ok |-> TRUE, blocks |-> b] : b \in SeqsUpTo(CsnBlocks, MaxRows)}

\* an event object with the given keys and values
Event(columns, vals) ==
    [c \in Range(columns) |-> vals[CHOOSE i \in 1..Len(columns) : columns[i] = c]]

\* the key names of the JSON events
kFecha == <<"F","e","c","h","a">>

kLat == <<"L","a","t">>

kMagnitud == <<"M","a","g","n","i","t","u","d">>

kLugar == <<"L","u","g","a","r">>

kTime == <<"t","i","m","e">>

kLatDeg == <<"l","a","t","_","d","e","g">>

kMag == <<"m","a","g">>

kPlace == <<"p","l","a","c","e">>

kDate == <<"d","a","t","e">>

kLAT == <<"L","A","T">>

kLatLower == <<"l","a","t">>

kMl == <<"m","l">>

\* The event schemas of the JSON sources: the documented one, one whose
\* latitude key only contains a candidate name, and one with two keys per
\* field that differ in case or in candidate rank.
SchemaA ==
    LET c == <<kFecha, kLat, kMagnitud, kLugar>>
    IN  [columns |-> c,
         events  |->
           {Event(c, <<T(DateText(2, 3)), T(<<"-","3","3",".","4","5">>),
                       T(<<"4",",","5">>), T(<<"S","a">>)>>),
            Event(c, <<T(DateText(2, 4)), T(<<"-","2","0",".","1">>),
                       None, T(<<"S","b">>)>>),
            Event(c, <<T(Garbage), T(<<"-","2","0",".","1">>),
                       T(<<"m","a","g"," ","5",".","3"," ","k","m">>), None>>)}]

SchemaB ==
    LET c == <<kTime, kLatDeg, kMag, kPlace>>
    IN  [columns |-> c,
         events  |->
           {Event(c, <<T(DateText(2, 3)), T(<<"-","3","3",".","4","5">>),
                       T(<<"2",".","5">>), T(<<"S","a">>)>>),
            Event(c, <<T(DateText(2, 4)), T(<<"-","2","0",".","1">>),
                       T(<<"x">>), T(<<>>)>>)}]

SchemaC ==
    LET c == <<kDate, kFecha, kLAT, kLatLower, kMl, kMagnitud>>
    IN  [columns |-> c,
         events  |->
           {Event(c, <<T(DateText(2, 4)), T(DateText(2, 3)),
                       T(<<"-","3","3",".","4","5">>), T(<<"-","2","0",".","1">>),
                       T(<<"3",".","0">>), T(<<"4",",","5">>)>>),
            Event(c, <<T(DateText(2, 3)), None,
                       T(<<"-","3","3",".","4","5">>), T(<<"-","2","0",".","1">>),
                       T(<<"3",".","0">>), None>>)}]

Schemas == {SchemaA, SchemaB, SchemaC}

\* a JSON list of events
JsonLists ==
    UNION {{[shape |-> "list", columns |-> sc.columns, rows |-> r] :
                r \in SeqsUpTo(sc.events, MaxRows)} : sc \in Schemas}

kData == <<"d","a","t","a">>

kSismos == <<"s","i","s","m","o","s">>

ListValue(columns, rows) ==
    [islist |-> TRUE, columns |-> columns, rows |-> rows,
     cell |-> T(<<"[", "]">>)]

CellValue(cell) ==
    [islist |-> FALSE, columns |-> <<>>, rows |-> <<>>, cell |-> cell]

\* a JSON object: one that wraps the list under "sismos" behind an empty
\* list under "data", or a single event
JsonDicts ==
    {[shape |-> "dict", keys |-> <<kData, kSismos>>,
      val |-> (kData :> ListValue(<<>>, <<>>))
              @@ (kSismos :> ListValue(l.columns, l.rows))] : l \in JsonLists}
    \cup UNION {{[shape |-> "dict", keys |-> sc.columns,
                   val |-> [c \in Range(sc.columns) |-> CellValue(e[c])]] :
                    e \in sc.events} : sc \in Schemas}

\* a JSON value that is neither a list nor an object
JsonOther == [shape |-> "other"]

HttpFailure == [ok |-> FALSE, data |-> JsonOther]

ChileAlertaResponses ==
    {HttpFailure}
    \cup {[ok |-> TRUE, data |-> d] : d \in JsonLists \cup JsonDicts \cup {JsonOther}}

GaelResponses ==
    {HttpFailure}
    \cup {[ok |-> TRUE, data |-> d] : d \in JsonLists \cup {JsonOther}}

\* the arguments filter_sismos may be called with
MagMins == {None, Some(0), Some(1), Some(300)}

TimeBounds == {None, Some(28)}

Keywords == {<<>>, <<"S", "A">>, <<".">>, <<" ", "s", "a">>}

NoArgs == [mag_min |-> None, fecha_desde |-> None, fecha_hasta |-> None,
           region_keyword |-> <<>>]

-----------------------------------------------------------------------------
(* The state machine: one fetch_sismos call, adapter by adapter, then the  *)
(* filter_sismos call of src/app.py on the table it returned.               *)

Init ==
    /\ pc = "evtdb"
    /\ called = <<>>
    /\ ret = [a \in Range(Order) |-> NotCalled]
    /\ result = NotCalled
    /\ args = NoArgs
    /\ out = NotCalled

\* the adapter named a was called and ended with o
Called(a, o, after) ==
    /\ called' = Append(called, a)
    /\ ret' = [ret EXCEPT ![a] = o]
    /\ pc' = after.pc
    /\ result' = after.result
    /\ UNCHANGED <<args, out>>

TryEvtdb ==
    /\ pc = "evtdb"
    /\ \E site \in EvtdbSites :
         \E o \in fetch_from_evtdb(site, EvtdbPages) :
            Called("evtdb", o, Guarded(o, "csn"))

TryCsn ==
    /\ pc = "csn"
    /\ \E r \in CsnResponses :
         \E o \in fetch_from_csn(r) :
            Called("csn", o, Guarded(o, "chilealerta"))

TryChileAlerta ==
    /\ pc = "chilealerta"
    /\ \E r \in ChileAlertaResponses :
         \E o \in fetch_from_chilealerta(r) :
            Called("chilealerta", o, Guarded(o, "gael"))

CallGael ==
    /\ pc = "gael"
    /\ \E r \in GaelResponses :
         \E o \in fetch_from_gael(r) :
            Called("gael", o, Unguarded(o))

\* src/app.py: the table fetch_sismos returned is filtered; an exception
\* stops the page before the filter
Filter ==
    /\ pc = "done"
    /\ IsTable(result)
    /\ \E m \in MagMins, d \in TimeBounds, h \in TimeBounds, k \in Keywords :
        /\ args' = [mag_min |-> m, fecha_desde |-> d, fecha_hasta |-> h,
                    region_keyword |-> k]
        /\ out' = filter_sismos(result, m, d, h, k)
    /\ pc' = "filtered"
    /\ UNCHANGED <<called, ret, result>>

\* one call of fetch_sismos
Fetch == TryEvtdb \/ TryCsn \/ TryChileAlerta \/ CallGael

FetchSpec == Init /\ [][Fetch]_vars

\* the page of src/app.py: the fetch, then the filter
Next == Fetch \/ Filter

Spec == Init /\ [][Next]_vars

-----------------------------------------------------------------------------
(* Properties *)

Adapters == Range(Order)

Returned(o) == IsTable(o) /\ ~IsEmpty(o)

FailedOrEmpty(o) == o = Raise \/ (IsTable(o) /\ IsEmpty(o))

Finished == pc \in {"done", "filtered"}

\* the tables the adapters have returned
AdapterTables == {ret[a] : a \in {b \in Adapters : IsTable(ret[b])}}

\* C1: fetch_sismos calls the adapters in the order EVTDB, Catalog,
\* ChileAlerta, GAEL; the first adapter to return a non-empty table is the
\* last one called, and its table is what fetch_sismos returns.
C1_PriorityOrder ==
    /\ Len(called) <= Len(Order)
    /\ \A i \in 1..Len(called) : called[i] = Order[i]
    /\ \A a \in Adapters : a \notin Range(called) => ret[a] = NotCalled
    /\ \A i \in 1..Len(called) :
         Returned(ret[called[i]]) =>
            /\ i = Len(called)
            /\ Finished
            /\ result = ret[called[i]]

\* EVTDB returned MaxRows rows: they are the result and nothing else was called
C1_Witness ==
    /\ pc = "done"
    /\ called = <<"evtdb">>
    /\ Len(ret["evtdb"].rows) = MaxRows
    /\ result = ret["evtdb"]
    /\ \A a \in Adapters \ {"evtdb"} : ret[a] = NotCalled

\* C2: when one of the first three adapters raises or returns an empty table,
\* fetch_sismos goes on to the adapter after it and the caller sees no error
\* from it; a non-empty result is the table of the first adapter that
\* returned a non-empty one, whatever mix of errors and empty tables came
\* before.
C2_Fallback ==
    /\ \A i \in 1..(Len(Order) - 1) :
         FailedOrEmpty(ret[Order[i]]) =>
            IF Len(called) = i
            THEN pc = Order[i + 1] /\ result = NotCalled
            ELSE Len(called) > i /\ called[i + 1] = Order[i + 1]
    /\ (Finished /\ Returned(result)) =>
         \E j \in 1..Len(Order) :
            /\ result = ret[Order[j]]
            /\ Len(called) = j
            /\ \A i \in 1..(j - 1) : FailedOrEmpty(ret[Order[i]])

\* EVTDB and Catalog raised, ChileAlerta returned rows: they are the result
C2_Witness ==
    /\ pc = "done"
    /\ ret["evtdb"] = Raise
    /\ ret["csn"] = Raise
    /\ Returned(ret["chilealerta"])
    /\ result = ret["chilealerta"]
    /\ ret["gael"] = NotCalled

\* C3: once EVTDB, Catalog and ChileAlerta have each raised or returned an
\* empty table, fetch_sismos ends with whatever GAEL ended with, an empty
\* table and an exception included; fetch_sismos lets an exception out in
\* that case only.
C3_TerminalFallback ==
    /\ ret["gael"] # NotCalled =>
         /\ \A i \in 1..(Len(Order) - 1) : FailedOrEmpty(ret[Order[i]])
         /\ Finished
         /\ result = ret["gael"]
    /\ result = Raise =>
         /\ called = Order
         /\ ret["gael"] = Raise
         /\ \A i \in 1..(Len(Order) - 1) : FailedOrEmpty(ret[Order[i]])

\* the three guarded calls failed in both ways, GAEL raised, the caller sees it
C3_Witness ==
    /\ pc = "done"
    /\ ret["evtdb"] = Raise
    /\ IsTable(ret["csn"]) /\ IsEmpty(ret["csn"])
    /\ FailedOrEmpty(ret["chilealerta"])
    /\ ret["gael"] = Raise
    /\ result = Raise

\* C4: every row of every table an adapter returns has a parsed, non-null
\* fecha_dt.
C4_DatesParsed ==
    \A t \in AdapterTables :
        \A i \in 1..Len(t.rows) : ~IsNone(t.rows[i].fecha_dt)

\* the canonical Event fields
CanonicalFields == {"fecha_dt", "fecha_local", "dia", "hora", "magnitud",
                    "profundidad", "latitud", "longitud", "referencia"}

\* C5: every table fetch_sismos returns has all the canonical Event fields,
\* dia and hora included, in every row.
C5_CanonicalFields ==
    (Finished /\ IsTable(result)) =>
        /\ CanonicalFields \subseteq result.cols
        /\ \A i \in 1..Len(result.rows) :
             CanonicalFields \subseteq DOMAIN result.rows[i]

\* C6: in every row of every table an adapter returns, fecha_local is
\* fecha_dt converted to the America/Santiago zone.
C6_LocalFromUtc ==
    \A t \in AdapterTables :
        \A i \in 1..Len(t.rows) :
            t.rows[i].fecha_local = tz_convert(t.rows[i].fecha_dt)

\* C7: every table an adapter returns is sorted by fecha_dt descending:
\* fecha_dt[i] >= fecha_dt[i+1] for all adjacent rows.
C7_SortedDescending ==
    \A t \in AdapterTables :
        \A i \in 1..(Len(t.rows) - 1) :
            /\ ~IsNone(t.rows[i].fecha_dt)
            /\ ~IsNone(t.rows[i + 1].fecha_dt)
            /\ Val(t.rows[i].fecha_dt) >= Val(t.rows[i + 1].fecha_dt)

\* the condition the arguments a put on a row r, as the claim states it
Satisfies(r, a) ==
    /\ IsNone(a.mag_min)
         \/ (~IsNone(r.magnitud) /\ Val(r.magnitud) >= Val(a.mag_min))
    /\ IsNone(a.fecha_desde)
         \/ (~IsNone(r.fecha_dt) /\ Val(r.fecha_dt) >= Val(a.fecha_desde))
    /\ IsNone(a.fecha_hasta)
         \/ (~IsNone(r.fecha_dt) /\ Val(r.fecha_dt) <= Val(a.fecha_hasta))
    /\ Len(a.region_keyword) = 0
         \/ Contains(Lower(r.referencia), Lower(a.region_keyword))

\* C8: filter_sismos returns exactly the rows of its input that satisfy all
\* the conditions given (magnitude floor, inclusive time bounds, reference
\* containing the keyword as a case-insensitive substring), in the input's
\* order; with no condition given it returns the input's rows.
C8_FilterExact ==
    pc = "filtered" =>
        /\ IsTable(out)
        /\ out.rows = SelectSeq(result.rows, LAMBDA r : Satisfies(r, args))
        /\ args = NoArgs => out.rows = result.rows

\* C9: with a magnitude floor above zero, no row of the result of
\* filter_sismos has a null magnitude.
C9_NullMagnitudeExcluded ==
    (pc = "filtered" /\ ~IsNone(args.mag_min) /\ Val(args.mag_min) > 0) =>
        \A i \in 1..Len(out.rows) : ~IsNone(out.rows[i].magnitud)

\* a row with a null magnitude that meets every other condition was filtered
\* with a floor above zero
C9_Witness ==
    /\ pc = "filtered"
    /\ ~IsNone(args.mag_min) /\ Val(args.mag_min) > 0
    /\ \E i \in 1..Len(result.rows) :
         /\ IsNone(result.rows[i].magnitud)
         /\ Satisfies(result.rows[i], [args EXCEPT !.mag_min = None])
    /\ Len(out.rows) < Len(result.rows)

\* the tables the normalizer built, with the columns of their source frames
NormalizedTables == {t \in AdapterTables : Len(t.srccols) > 0}

\* what the normalizer makes of the cell that supplies canonical field k
Converted(k, cell) ==
    IF k = "fecha" THEN cell
    ELSE IF k = "referencia" THEN StrOf(cell)
    ELSE _to_float(cell)

\* the source columns whose lower-cased name contains a candidate of field k
ContainingColumns(columns, k) ==
    {c \in Range(columns) :
        \E i \in 1..Len(colmap[k]) : Contains(Lower(c), colmap[k][i])}

NamedColumn(columns, k) ==
    LET bears(i) == {j \in 1..Len(columns) : Lower(columns[j]) = colmap[k][i]}
        present  == {i \in 1..Len(colmap[k]) : bears(i) # {}}
    IN  IF present = {} THEN None
        ELSE LET i0 == CHOOSE i \in present : \A l \in present : i <= l
             IN  Some(columns[CHOOSE j \in bears(i0) : \A l \in bears(i0) : j <= l])

====
